---- MODULE Spec2Model ----
(***************************************************************************)
(* A model of aseneb: the non-blocking calculation supervisor              *)
(* (NEBProjectNonBlocking), the parallel band force evaluation (PalNEB)    *)
(* and the trajectory result queries (NEBResult).                          *)
(***************************************************************************)
EXTENDS Integers, Sequences, FiniteSets, TLC

\* ------------------------------------------------------------------ bounds

\* Number of Process objects one supervisor creates in a run of the model.
MaxTasks == 2
\* Highest NEB path number <project>_neb_path_<n>.traj the model tracks.
MaxNeb == 2
\* Largest band (number of images, endpoints included) given to PalNEB.
MaxImages == 4
\* Largest pool size (num_processes) given to PalNEB.
MaxProcesses == 2
\* Most atoms in an image of the band.
MaxAtoms == 2
\* Largest `steps` given to a path optimization.
MaxSteps == 2
\* Largest force criterion of a band, in units of 0.05 eV/A.
MaxForce == 4
\* Longest trajectory file (frames) a NEBResult is built from.
MaxFrames == 4
\* Largest magnitude (eV) of an energy given to energy_conversion.
MaxEV == 4
\* images of the band run_neb reads
MaxNodes == 6

VARIABLES
    \* --- NEBProjectNonBlocking / NEBProject
    calculation_process,  \* the held task handle: None or a process id
    procState,            \* per Process object: unborn, initial, alive, exited, closed
    procName,             \* per Process object: its name (job kind, NEB number)
    procPhase,            \* per Process object: how far its target function has got
    procExit,             \* per Process object: how it ended: ok, error (none once closed)
    files,                \* the working directory: file -> absent, partial, present
    neb_optimizer,        \* project setting
    calculator_type,      \* project setting
    opt_init,             \* project setting
    opt_final,            \* project setting
    op,                   \* the operation that made the last step
    found,                \* the state of the held process as that operation found it
    drained_exit,         \* how the process ended that this check() drained ("-": no drain)
    ret,                  \* what that operation returned ("raised": it raised, "-": no call)
    \* --- PalNEB (one get_forces call)
    nimages,              \* number of images of the band
    method,               \* NEB method name
    climb,                \* climbing image enabled
    num_processes,        \* pool size
    sharedCalc,           \* two images were given the same calculator object
    provider,             \* image index -> the energy its calculator computes
    aligned,              \* image index -> moved by minimize_rotation_and_translation
    pal_pc,               \* idle, mapping, done, failed
    tasks,                \* the image indices handed to pool.map, in order
    taskState,            \* position in tasks -> pending, running, ok, error
    results,              \* position in tasks -> the (energy, forces) its worker returned
    outOfOrder,           \* a worker finished before one with an earlier position
    neb_energies,         \* self.energies
    neb_real_forces,      \* self.real_forces
    neb_imax,             \* self.imax
    neb_emax,             \* self.emax
    neb_residuals,        \* self.residuals
    forces_ret,           \* precon_forces: the force of each interior image at the return
    forces_rows,          \* what get_forces returned: precon_forces.reshape((-1, 3))
    natoms,               \* atoms per image
    remove_rotation_and_translation,  \* constructor argument
    \* --- NEBResult
    num_nodes,            \* images per iteration
    num_frames,           \* frames in the trajectory file read by __init__
    num_iteration,        \* self.num_iteration
    atoms_list_list,      \* self.atoms_list_list: per iteration, the frames (by position in the file)
    energies_list,        \* self.energies_list: per iteration, node -> energy (eV) or NaN
    backfilled,           \* a complete_energy call has changed an entry
    res_op,               \* the NEBResult method called last
    res_args,             \* the arguments it was called with
    res_ret,              \* what it returned: [kind, num, den]
    xyz_titles,           \* the title lines the last call wrote to its xyz file
    \* --- utils.energy_conversion
    conv_energies,        \* the energies (eV) of the last call
    conv_unit,            \* its energy_unit
    conv_ret,             \* what it returned: [kind, num, den]
    \* --- NEBProject.interpolate
    init_atoms,           \* atomic numbers of the structure in <project>_init.traj
    final_atoms,          \* atomic numbers of the structure in <project>_final.traj
    interpolation_method, \* project setting
    \* --- _run_neb: the optimizer section of a path optimization
    optimizer,            \* the optimizer name given to _run_neb
    neb_fmax,             \* fmax, in units of 0.05 eV/A
    neb_steps,            \* steps
    opt_pc,               \* where _run_neb is: "idle", "running", "saved", "raised"
    opt_class,            \* the class of the optimizer object in use
    opt_run,              \* how many optimizer.run calls have begun
    opt_fmax,             \* the fmax of the current optimizer.run call
    nsteps,               \* the current optimizer's own step count
    force,                \* the force criterion of the band, in units of 0.05 eV/A
    iterations,           \* optimizer steps taken since _run_neb began
    trajectory,           \* the trajectory file: for each snapshot it holds, in file
                          \* order, the number of iterations the band had gone through
    runs,                 \* the finished optimizer.run calls: [class, fmax, converged]
    \* --- run_neb (the loop that prepares new_nodes)
    prev_nodes,           \* len(prev_result.atoms_list_list[-1])
    new_nodes,            \* new_nodes: per image, its calculator object and that one's job_name
    nodes_pc              \* idle, loop, raised (get_calculator raised), built

supervisorVars == <<calculation_process, procState, procName, procPhase, procExit,
                    files, neb_optimizer, calculator_type, opt_init, opt_final, op, found,
                    drained_exit, ret>>

palVars == <<nimages, natoms, remove_rotation_and_translation, method, climb, num_processes, sharedCalc, provider, aligned, pal_pc,
             tasks, taskState, results, outOfOrder, neb_energies, neb_real_forces, neb_imax,
             neb_emax, neb_residuals, forces_ret, forces_rows>>

resultVars == <<num_nodes, num_frames, num_iteration, atoms_list_list, energies_list, backfilled,
                res_op, res_args, res_ret, xyz_titles>>

utilVars == <<conv_energies, conv_unit, conv_ret>>

projectVars == <<init_atoms, final_atoms, interpolation_method>>

optVars == <<optimizer, neb_fmax, neb_steps, opt_pc, opt_class, opt_run, opt_fmax, nsteps,
             force, iterations, trajectory, runs>>

nodeVars == <<prev_nodes, new_nodes, nodes_pc>>

vars == <<supervisorVars, palVars, resultVars, utilVars, projectVars, optVars, nodeVars>>

\* ------------------------------------------------------------ NEBProject

\* self.calculation_process = None
None == 0

Pids == 1..MaxTasks

NoName == [job |-> "", n |-> 0]

SingleFiles == {"init_traj", "init_log", "init_xyz",
                "final_traj", "final_log", "final_xyz",
                "initial_path_traj", "initial_path_xyz", "template",
                "g16_guess_out"}
NebFiles == {"neb_traj", "neb_log", "neb_xyz", "neb_opt_xyz"}

FileKeys == {<<k, 0>> : k \in SingleFiles} \cup (NebFiles \X (1..MaxNeb))

init_traj_file == <<"init_traj", 0>>
init_log_file == <<"init_log", 0>>
init_xyz_file == <<"init_xyz", 0>>
final_traj_file == <<"final_traj", 0>>
final_log_file == <<"final_log", 0>>
final_xyz_file == <<"final_xyz", 0>>
initial_path_traj_file == <<"initial_path_traj", 0>>
initial_path_xyz_file == <<"initial_path_xyz", 0>>
template_file == <<"template", 0>>
neb_path_traj_file(number) == <<"neb_traj", number>>
neb_path_log_file(number) == <<"neb_log", number>>
neb_path_xyz_file(number) == <<"neb_xyz", number>>
neb_path_optimized_xyz_file(number) == <<"neb_opt_xyz", number>>

\* utils.remove over a list of files: each one that exists is deleted.
remove(fs, gone) == [f \in FileKeys |-> IF f \in gone THEN "absent" ELSE fs[f]]

\* a background task (or the caller) writes files
write(fs, written, status) == [f \in FileKeys |-> IF f \in written THEN status ELSE fs[f]]

\* the highest n for which <project>_neb_path_<n>.traj exists, 0 when none does
current_final_neb_number ==
    LET ns == {n \in 1..MaxNeb : files[neb_path_traj_file(n)] # "absent"}
    IN  IF ns = {} THEN 0 ELSE CHOOSE n \in ns : \A m \in ns : m <= n

OptimizerNames == {"Composite", "SGD"}

\* str.upper() on the optimizer names of the model
upper(s) ==
    CASE s = "Composite" -> "COMPOSITE"
      [] s = "lbfgs" -> "LBFGS"
      [] s = "LBFGSLineSearch" -> "LBFGSLINESEARCH"
      [] OTHER -> s

CalculatorTypes == {"xtb", "G16", "orca"}

\* str.lower() on the calculator types and energy units of the model
lower(s) ==
    CASE s = "G16" -> "g16"
      [] s \in {"KCAL/MOL", "Kcal/Mol"} -> "kcal/mol"
      [] s \in {"kJ/mol", "KJ/MOL"} -> "kj/mol"
      [] s \in {"Hartree", "HARTREE"} -> "hartree"
      [] s = "Hartrees" -> "hartrees"
      [] s = "AU" -> "au"
      [] s = "A.U." -> "a.u."
      [] s \in {"eV", "EV"} -> "ev"
      [] s = "Cal/mol" -> "cal/mol"
      [] s = "IDPP" -> "idpp"
      [] s = "Linear" -> "linear"
      [] OTHER -> s

\* get_calculator(): "ok", or "raised" for an unknown type or (g16) a missing template
get_calculator ==
    IF lower(calculator_type) = "xtb" THEN "ok"
    ELSE IF lower(calculator_type) = "g16"
         THEN IF files[template_file] = "absent" THEN "raised" ELSE "ok"
         ELSE "raised"

\* ------------------------------------------------- NEBProjectNonBlocking

StartOps == {"run_neb", "load_init_structure", "load_final_structure", "run_g16_init_guess"}

\* prev_number argument: a path number, or NoneArg for "the latest"
NoneArg == -1

\* The Process objects created so far are 1..(nextPid - 1).
nextPid == 1 + Cardinality({p \in Pids : procState[p] # "unborn"})

\* the state of the process behind the handle: none when no handle is held
HandleState == IF calculation_process = None THEN "none" ELSE procState[calculation_process]

\* the "a task handle is already held" test that opens each start operation
\* (the _unguarded variants: the test left out)
run_neb_unguarded == FALSE
run_neb_busy == calculation_process # None
load_init_structure_unguarded == FALSE
load_init_structure_busy == calculation_process # None
\* (the _busy_if_alive variant: the test asks whether the held process is running)
load_final_structure_busy_if_alive ==
    calculation_process # None /\ procState[calculation_process] = "alive"
load_final_structure_busy == calculation_process # None
run_g16_init_guess_busy == calculation_process # None

\* what each start operation returns when it has started its process
run_neb_ret == "True"
load_init_structure_ret == "True"
load_final_structure_ret == "True"
run_g16_init_guess_ret == "None"

\* self.calculation_process = Process(target=..., name=...) and .start():
\* the handle is assigned before start(), so a start() that raises leaves the
\* handle on a Process object that never ran.
Launch(name, launched, okRet) ==
    /\ calculation_process' = nextPid
    /\ procName' = [procName EXCEPT ![nextPid] = name]
    /\ procState' = [procState EXCEPT ![nextPid] = IF launched THEN "alive" ELSE "initial"]
    /\ ret' = IF launched THEN okRet ELSE "raised"
    /\ UNCHANGED <<procPhase, procExit>>

\* The common shape of the four start operations.
\*   busy:       the handle test                      -> return False
\*   failBefore: an error before any file is touched  -> raise
\*   removed:    the output files cleared
\*   failAfter:  an error after the files are cleared -> raise
Start(name, busy, failBefore, removed, failAfter, okRet) ==
    IF busy
    THEN /\ ret' = "False"
         /\ UNCHANGED <<calculation_process, procState, procName, procPhase, procExit, files>>
    ELSE IF failBefore
    THEN /\ ret' = "raised"
         /\ UNCHANGED <<calculation_process, procState, procName, procPhase, procExit, files>>
    ELSE IF failAfter
    THEN /\ ret' = "raised"
         /\ files' = remove(files, removed)
         /\ UNCHANGED <<calculation_process, procState, procName, procPhase, procExit>>
    ELSE /\ nextPid <= MaxTasks
         /\ files' = remove(files, removed)
         /\ \E launched \in BOOLEAN : Launch(name, launched, okRet)

run_neb(arg) ==
    LET prev_number == IF arg = NoneArg THEN current_final_neb_number ELSE arg
        prev_file == IF prev_number = 0 THEN initial_path_traj_file
                     ELSE neb_path_traj_file(prev_number)
        outputs == {neb_path_traj_file(prev_number + 1), neb_path_log_file(prev_number + 1),
                    neb_path_xyz_file(prev_number + 1),
                    neb_path_optimized_xyz_file(prev_number + 1)}
    IN  /\ prev_number < MaxNeb
        /\ op' = "run_neb" /\ found' = HandleState /\ drained_exit' = "-"
        /\ Start([job |-> "neb", n |-> prev_number + 1],
                 run_neb_busy,
                 files[prev_file] = "absent",
                 outputs,
                 \* NEBResult of a file without one complete iteration has no
                 \* atoms_list_list[-1]; then get_calculator() per node
                 files[prev_file] = "partial" \/ get_calculator = "raised",
                 run_neb_ret)
        /\ UNCHANGED <<neb_optimizer, calculator_type, opt_init, opt_final>>
        /\ UNCHANGED <<palVars, resultVars, utilVars, projectVars, optVars, nodeVars>>

load_init_structure(readable) ==
    /\ op' = "load_init_structure" /\ found' = HandleState /\ drained_exit' = "-"
    /\ Start([job |-> IF opt_init THEN "opt_init" ELSE "sp_init", n |-> 0],
             load_init_structure_busy,
             ~readable \/ get_calculator = "raised",
             {init_traj_file, init_log_file, init_xyz_file},
             FALSE,
             load_init_structure_ret)
    /\ UNCHANGED <<neb_optimizer, calculator_type, opt_init, opt_final>>
    /\ UNCHANGED <<palVars, resultVars, utilVars, projectVars, optVars, nodeVars>>

load_final_structure(readable) ==
    /\ op' = "load_final_structure" /\ found' = HandleState /\ drained_exit' = "-"
    /\ Start([job |-> IF opt_final THEN "opt_final" ELSE "sp_final", n |-> 0],
             load_final_structure_busy,
             ~readable \/ get_calculator = "raised",
             {final_traj_file, final_log_file, final_xyz_file},
             FALSE,
             load_final_structure_ret)
    /\ UNCHANGED <<neb_optimizer, calculator_type, opt_init, opt_final>>
    /\ UNCHANGED <<palVars, resultVars, utilVars, projectVars, optVars, nodeVars>>

run_g16_init_guess(arg) ==
    LET prev_number == IF arg = NoneArg THEN current_final_neb_number ELSE arg
        prev_file == IF prev_number = 0 THEN initial_path_traj_file
                     ELSE neb_path_traj_file(prev_number)
    IN  /\ op' = "run_g16_init_guess" /\ found' = HandleState /\ drained_exit' = "-"
        /\ Start([job |-> "g16_init_guess", n |-> 0],
                 run_g16_init_guess_busy,
                 files[prev_file] = "absent",
                 {<<"g16_guess_out", 0>>},
                 \* _prepare_gjf_data_for_guess opens the template file (the
                 \* .gjf inputs it writes are not tracked)
                 files[template_file] = "absent",
                 run_g16_init_guess_ret)
        /\ UNCHANGED <<neb_optimizer, calculator_type, opt_init, opt_final>>
        /\ UNCHANGED <<palVars, resultVars, utilVars, projectVars, optVars, nodeVars>>

\* check() without its is_alive() branch
check_ret_no_alive_test ==
    IF calculation_process = None THEN "-1"
    ELSE IF procState[calculation_process] = "initial" THEN "raised"
    ELSE "0"

\* check() with a status code of its own for a process that ended by an exception
check_ret_reports_failure ==
    IF calculation_process = None THEN "-1"
    ELSE IF procState[calculation_process] = "alive" THEN "1"
    ELSE IF procState[calculation_process] = "initial" THEN "raised"
    ELSE IF procExit[calculation_process] = "error" THEN "raised"
    ELSE "0"

\* check(): the status code
check_ret ==
    IF calculation_process = None THEN "-1"
    ELSE IF procState[calculation_process] = "alive" THEN "1"
    ELSE IF procState[calculation_process] = "initial" THEN "raised" \* join() of a process never started
    ELSE "0"

\* self.calculation_process = None, the last statement of the cleanup
\* (check_not_cleared: the statement left out)
check_not_cleared == calculation_process
check_cleared == None

check ==
    /\ op' = "check" /\ found' = HandleState
    /\ drained_exit' = IF check_ret = "0" THEN procExit[calculation_process] ELSE "-"
    /\ ret' = check_ret
    /\ IF check_ret = "0"
       THEN \* join(), close(), handle = None
            /\ procState' = [procState EXCEPT ![calculation_process] = "closed"]
            /\ procExit' = [procExit EXCEPT ![calculation_process] = "none"]
            /\ procPhase' = [procPhase EXCEPT ![calculation_process] = 0]
            /\ procName' = [procName EXCEPT ![calculation_process] = NoName]
            /\ calculation_process' = check_cleared
       ELSE UNCHANGED <<calculation_process, procState, procExit, procPhase, procName>>
    /\ UNCHANGED <<files, neb_optimizer, calculator_type, opt_init, opt_final>>
    /\ UNCHANGED <<palVars, resultVars, utilVars, projectVars, optVars, nodeVars>>

\* terminate(): is the held handle one terminate() can act on
terminate_ok ==
    /\ calculation_process # None
    /\ procState[calculation_process] \in {"alive", "exited"}

\* self.calculation_process = None, the last statement of terminate()
\* (terminate_not_cleared: the statement left out)
terminate_not_cleared == calculation_process
terminate_cleared == None

\* terminate() that returns at once when no handle is held
terminate_ret_guarded ==
    IF calculation_process = None \/ terminate_ok THEN "None" ELSE "raised"

\* terminate(): None, or the error of calling .terminate() on None or on a
\* process never started
terminate_ret == IF terminate_ok THEN "None" ELSE "raised"

terminate ==
    /\ op' = "terminate" /\ found' = HandleState /\ drained_exit' = "-"
    /\ ret' = terminate_ret
    /\ IF terminate_ok
       THEN \* terminate(), kill(), join(), close(), handle = None
            /\ procState' = [procState EXCEPT ![calculation_process] = "closed"]
            /\ procExit' = [procExit EXCEPT ![calculation_process] = "none"]
            /\ procPhase' = [procPhase EXCEPT ![calculation_process] = 0]
            /\ procName' = [procName EXCEPT ![calculation_process] = NoName]
            /\ calculation_process' = terminate_cleared
       ELSE \* None.terminate(), or terminate() of a process never started
            /\ UNCHANGED <<calculation_process, procState, procExit, procPhase, procName>>
    /\ UNCHANGED <<files, neb_optimizer, calculator_type, opt_init, opt_final>>
    /\ UNCHANGED <<palVars, resultVars, utilVars, projectVars, optVars, nodeVars>>

\* current_calculation_job_name(): the held process's name, or None
current_calculation_job_name ==
    IF calculation_process = None THEN NoName ELSE procName[calculation_process]

\* --------------------------------------------- the background processes

ValidOptimizers == {"FIRE", "LBFGS", "LBFGSLINESEARCH", "COMPOSITE"}

\* number of file-writing steps of each target function
LastPhase(name) ==
    CASE name.job = "neb" -> 3
      [] name.job \in {"opt_init", "opt_final", "sp_init", "sp_final"} -> 2
      [] OTHER -> 1

\* the files a target function has written when it reaches `phase`
BgFiles(fs, name, phase) ==
    CASE name.job = "neb" /\ phase = 1 ->
            write(write(fs, {neb_path_traj_file(name.n)}, "partial"),
                  {neb_path_log_file(name.n)}, "present")
      [] name.job = "neb" /\ phase = 2 ->
            write(fs, {neb_path_traj_file(name.n)}, "present")
      [] name.job = "neb" /\ phase = 3 ->
            write(fs, {neb_path_xyz_file(name.n), neb_path_optimized_xyz_file(name.n)}, "present")
      [] name.job = "opt_init" /\ phase = 1 ->
            write(fs, {init_traj_file, init_log_file}, "present")
      [] name.job = "sp_init" /\ phase = 1 -> write(fs, {init_traj_file}, "present")
      [] name.job \in {"opt_init", "sp_init"} /\ phase = 2 ->
            write(fs, {init_xyz_file}, "present")
      [] name.job = "opt_final" /\ phase = 1 ->
            write(fs, {final_traj_file, final_log_file}, "present")
      [] name.job = "sp_final" /\ phase = 1 -> write(fs, {final_traj_file}, "present")
      [] name.job \in {"opt_final", "sp_final"} /\ phase = 2 ->
            write(fs, {final_xyz_file}, "present")
      [] name.job = "g16_init_guess" /\ phase = 1 ->
            write(fs, {<<"g16_guess_out", 0>>}, "present")
      [] OTHER -> fs

\* _run_neb raises at once for an optimizer name it does not know
BgCanProceed(name) == name.job = "neb" => upper(neb_optimizer) \in ValidOptimizers

\* the target function of process p gets one step further
BgStep(p) ==
    /\ procState[p] = "alive"
    /\ procPhase[p] < LastPhase(procName[p])
    /\ BgCanProceed(procName[p])
    /\ procPhase' = [procPhase EXCEPT ![p] = @ + 1]
    /\ files' = BgFiles(files, procName[p], procPhase[p] + 1)
    /\ op' = "bg" /\ found' = "-" /\ drained_exit' = "-"
    /\ ret' = "-"
    /\ UNCHANGED <<calculation_process, procState, procName, procExit,
                   neb_optimizer, calculator_type, opt_init, opt_final>>
    /\ UNCHANGED <<palVars, resultVars, utilVars, projectVars, optVars, nodeVars>>

\* the target function returns: the process ends normally
BgExitOk(p) ==
    /\ procState[p] = "alive"
    /\ procPhase[p] = LastPhase(procName[p])
    /\ procState' = [procState EXCEPT ![p] = "exited"]
    /\ procExit' = [procExit EXCEPT ![p] = "ok"]
    /\ op' = "bg" /\ found' = "-" /\ drained_exit' = "-"
    /\ ret' = "-"
    /\ UNCHANGED <<calculation_process, procName, procPhase, files,
                   neb_optimizer, calculator_type, opt_init, opt_final>>
    /\ UNCHANGED <<palVars, resultVars, utilVars, projectVars, optVars, nodeVars>>

\* the target function raises (invalid optimizer, a failed evaluation): the process ends
BgExitError(p) ==
    /\ procState[p] = "alive"
    /\ procPhase[p] < LastPhase(procName[p])
    /\ procState' = [procState EXCEPT ![p] = "exited"]
    /\ procExit' = [procExit EXCEPT ![p] = "error"]
    /\ op' = "bg" /\ found' = "-" /\ drained_exit' = "-"
    /\ ret' = "-"
    /\ UNCHANGED <<calculation_process, procName, procPhase, files,
                   neb_optimizer, calculator_type, opt_init, opt_final>>
    /\ UNCHANGED <<palVars, resultVars, utilVars, projectVars, optVars, nodeVars>>

\* ---------------------------------------------------------------- PalNEB

\* the energies a calculator may compute (eV, sample values)
EnergyValues == {0, 1}

\* What an attribute of the band object held before this get_forces call
\* (None after construction, or the numbers of an earlier call): a value no
\* evaluation of this call produces.
Before == -1

Images == 0..(nimages - 1)
Interior == 1..(nimages - 2)

\* a per-image force array, named by the image it was computed for
ForceOf(i) == [img |-> i, kind |-> "raw"]
ZeroForce == [img |-> Before, kind |-> "zero"]
BeforeForce == [img |-> Before, kind |-> "before"]

\* _calc_energy_and_forces(atoms): the calculator's result for image i
calc_energy_and_forces(i) == [energy |-> provider[i], forces |-> ForceOf(i)]

NoResult == [energy |-> Before, forces |-> BeforeForce]

Positions == DOMAIN tasks

\* the iterable given to pool.map: images, or images[1:-1] for 'aseneb'
map_input ==
    IF method # "aseneb"
    THEN [pos \in 0..(nimages - 1) |-> pos]
    ELSE [pos \in 0..(nimages - 3) |-> pos + 1]

\* get_forces up to the pool.map call: the shared-calculator test, the
\* rigid alignment of each image to its predecessor, the submission.
get_forces_begin ==
    /\ pal_pc = "idle"
    /\ IF sharedCalc
       THEN \* ValueError: images share a calculator
            /\ pal_pc' = "failed"
            /\ UNCHANGED <<aligned, tasks, taskState, results>>
       ELSE /\ pal_pc' = "mapping"
            \* for i in range(1, nimages): minimize_rotation_and_translation(images[i-1], images[i])
            /\ aligned' = [i \in Images |-> remove_rotation_and_translation /\ i >= 1]
            /\ tasks' = map_input
            /\ taskState' = [pos \in DOMAIN map_input |-> "pending"]
            /\ results' = [pos \in DOMAIN map_input |-> NoResult]
    /\ UNCHANGED <<nimages, natoms, remove_rotation_and_translation, method, climb, num_processes, sharedCalc, provider, outOfOrder,
                   neb_energies, neb_real_forces, neb_imax, neb_emax, neb_residuals,
                   forces_ret, forces_rows>>
    /\ UNCHANGED <<supervisorVars, resultVars, utilVars, projectVars, optVars, nodeVars>>

\* a free pool worker takes the next task of the queue
worker_start(pos) ==
    /\ pal_pc = "mapping"
    /\ taskState[pos] = "pending"
    /\ \A q \in Positions : q < pos => taskState[q] # "pending"
    /\ Cardinality({q \in Positions : taskState[q] = "running"}) < num_processes
    /\ taskState' = [taskState EXCEPT ![pos] = "running"]
    /\ UNCHANGED <<nimages, natoms, remove_rotation_and_translation, method, climb, num_processes, sharedCalc, provider, aligned,
                   pal_pc, tasks, results, outOfOrder, neb_energies, neb_real_forces,
                   neb_imax, neb_emax, neb_residuals, forces_ret, forces_rows>>
    /\ UNCHANGED <<supervisorVars, resultVars, utilVars, projectVars, optVars, nodeVars>>

\* a worker's evaluation returns, or raises (a provider failure); the pool
\* files the result under the task's position
worker_finish(pos, ok) ==
    /\ pal_pc = "mapping"
    /\ taskState[pos] = "running"
    /\ taskState' = [taskState EXCEPT ![pos] = IF ok THEN "ok" ELSE "error"]
    /\ results' = [results EXCEPT ![pos] =
                        IF ok THEN calc_energy_and_forces(tasks[pos]) ELSE NoResult]
    /\ outOfOrder' = (outOfOrder \/ \E q \in Positions :
                                        q < pos /\ taskState[q] \in {"pending", "running"})
    /\ UNCHANGED <<nimages, natoms, remove_rotation_and_translation, method, climb, num_processes, sharedCalc, provider, aligned,
                   pal_pc, tasks, neb_energies, neb_real_forces, neb_imax, neb_emax,
                   neb_residuals, forces_ret, forces_rows>>
    /\ UNCHANGED <<supervisorVars, resultVars, utilVars, projectVars, optVars, nodeVars>>

\* every evaluation has ended, whether it returned or raised
map_all_finished == \A pos \in Positions : taskState[pos] \in {"ok", "error"}
\* pool.map returns its list only when every evaluation has returned
map_succeeded == \A pos \in Positions : taskState[pos] = "ok"

\* pool.map re-raises the error of a failed evaluation
map_failed == \E pos \in Positions : taskState[pos] = "error"

\* the index into energy_forces read for interior image i
ResultIndexShifted(i) == i - 1
ResultIndex(i) == IF method # "aseneb" THEN i ELSE i - 1

\* energies = np.empty(nimages), filled from energy_forces; under 'aseneb' the
\* two endpoint entries are never assigned and keep what np.empty left there
local_energies(g0, g1) ==
    [i \in Images |->
        IF i \in Interior THEN results[ResultIndex(i)].energy
        ELSE IF method # "aseneb"
             THEN (IF i = 0 THEN results[0].energy ELSE results[nimages - 1].energy)
             ELSE (IF i = 0 THEN g0 ELSE g1)]

\* forces = np.empty((nimages - 2, natoms, 3)), filled from energy_forces
local_forces == [j \in 0..(nimages - 3) |-> results[ResultIndex(j + 1)].forces]

\* the image of highest energy among all images of the band
state_imax_all_images(energies) ==
    CHOOSE i \in Images :
        \A j \in Images : energies[j] < energies[i] \/ (energies[j] = energies[i] /\ j <= i)

\* NEBState.imax: 1 + np.argsort(energies[1:-1])[-1]
state_imax(energies) ==
    CHOOSE i \in Interior :
        \A j \in Interior : energies[j] < energies[i] \/ (energies[j] = energies[i] /\ j <= i)

\* the images that go through add_image_force and get a residual, in loop order
RECURSIVE residual_images(_, _)
residual_images(i, imax) ==
    IF i > nimages - 2 THEN <<>>
    ELSE (IF i = imax /\ climb THEN <<>> ELSE <<i>>) \o residual_images(i + 1, imax)

\* reshape in column-major order: consecutive rows run over the images
reshape_column_major(blocks, atoms) ==
    [r \in 0..((nimages - 2) * atoms - 1) |->
        [img |-> blocks[r % (nimages - 2)].img, atom |-> r \div (nimages - 2),
         kind |-> blocks[r % (nimages - 2)].kind]]

\* precon_forces.reshape((-1, 3)) of the (nimages - 2, natoms, 3) array: one
\* row per atom, the atoms of one image in consecutive rows
reshape(blocks, atoms) ==
    [r \in 0..((nimages - 2) * atoms - 1) |->
        [img |-> blocks[r \div atoms].img, atom |-> r % atoms,
         kind |-> blocks[r \div atoms].kind]]

\* get_forces from the return of pool.map to its own return
map_return ==
    /\ pal_pc = "mapping"
    /\ map_succeeded
    /\ \E g0 \in EnergyValues, g1 \in EnergyValues :
        LET energies == local_energies(g0, g1)
            forces == local_forces
            imax == state_imax(energies)
        IN  /\ neb_energies' = energies
            /\ neb_real_forces' = [i \in Images |->
                                      IF i \in Interior THEN forces[i - 1] ELSE ZeroForce]
            /\ neb_imax' = imax
            /\ neb_emax' = energies[imax]
            /\ neb_residuals' = residual_images(1, imax)
            /\ forces_ret' = [j \in 0..(nimages - 3) |->
                                [img |-> forces[j].img,
                                 kind |-> IF j + 1 = imax /\ climb THEN "climb" ELSE "spring"]]
            /\ forces_rows' = reshape(forces_ret', natoms)
    /\ pal_pc' = "done"
    /\ UNCHANGED <<nimages, natoms, remove_rotation_and_translation, method, climb, num_processes, sharedCalc, provider, aligned,
                   tasks, taskState, results, outOfOrder>>
    /\ UNCHANGED <<supervisorVars, resultVars, utilVars, projectVars, optVars, nodeVars>>

\* the error of a failed evaluation leaves get_forces at the pool.map line
map_raise ==
    /\ pal_pc = "mapping"
    /\ map_failed
    /\ pal_pc' = "failed"
    /\ UNCHANGED <<nimages, natoms, remove_rotation_and_translation, method, climb, num_processes, sharedCalc, provider, aligned,
                   tasks, taskState, results, outOfOrder, neb_energies, neb_real_forces,
                   neb_imax, neb_emax, neb_residuals, forces_ret, forces_rows>>
    /\ UNCHANGED <<supervisorVars, resultVars, utilVars, projectVars, optVars, nodeVars>>

\* the band object before the call
PalBand(n) ==
    /\ nimages = n
    /\ aligned = [i \in 0..(n - 1) |-> FALSE]
    /\ pal_pc = "idle"
    /\ tasks = <<>>
    /\ taskState = <<>>
    /\ results = <<>>
    /\ outOfOrder = FALSE
    /\ neb_energies = [i \in 0..(n - 1) |-> Before]
    /\ neb_real_forces = [i \in 0..(n - 1) |-> BeforeForce]
    /\ neb_imax = Before
    /\ neb_emax = Before
    /\ neb_residuals = <<>>
    /\ forces_ret = <<>>
    /\ forces_rows = <<>>

PalInit ==
    /\ \E n \in 3..MaxImages :
        /\ PalBand(n)
        /\ provider \in [0..(n - 1) -> EnergyValues]
    /\ natoms \in 1..MaxAtoms
    /\ remove_rotation_and_translation \in BOOLEAN
    /\ method \in {"aseneb", "improvedtangent"}
    /\ climb \in BOOLEAN
    /\ num_processes \in 1..MaxProcesses
    /\ sharedCalc \in BOOLEAN

\* the band is not in use
PalUnused ==
    /\ PalBand(3)
    /\ provider = [i \in 0..2 |-> 0]
    /\ natoms = 1
    /\ remove_rotation_and_translation = FALSE
    /\ method = "aseneb"
    /\ climb = FALSE
    /\ num_processes = 1
    /\ sharedCalc = FALSE


\* ------------------------------------------------------------- NEBResult

\* np.nan: the energy of a frame whose get_potential_energy() raised
NaN == -1000
isnan(x) == x = NaN

\* the energies a frame of the trajectory may carry (eV, sample values)
FrameEnergies == {0, 1}
NodeCounts == {2, 3}

Nodes == 0..(num_nodes - 1)

\* a Python index k into a sequence of length len: negative counts from the end
PyIndex(len, k) == IF k < 0 THEN k + len ELSE k
InRange(len, k) == PyIndex(len, k) >= 0 /\ PyIndex(len, k) < len

\* return values
Value(num, den) == [kind |-> "value", num |-> num, den |-> den]
Bool(b) == [kind |-> "bool", num |-> IF b THEN 1 ELSE 0, den |-> 1]
Raised == [kind |-> "raised", num |-> 0, den |-> 1]
NoReturn == [kind |-> "none", num |-> 0, den |-> 1]

\* the arguments of a call: index stands for `index` or `iteration`, energy for
\* `energy` or the initial structure's energy, final for the final structure's
Args(index, energy, final, overwrite, energy_unit) ==
    [index |-> index, energy |-> energy, final |-> final, overwrite |-> overwrite,
     energy_unit |-> energy_unit]
NoArgs == Args(0, NaN, NaN, FALSE, "-")

\* conversion factors from eV, as integers over a power of ten
KcalPerMol == 2306031
KJPerMol == 9648534
FactorDen == 100000
Hartree == 3674932
HartreeDen == 100000000

Units == {"kcal/mol", "kJ/mol", "Hartree", "eV", "cal/mol"}
\* the units the NEBResult queries are called with
QueryUnits == {"kcal/mol", "Hartree", "eV", "cal/mol"}

\* energy_conversion(energies, energy_unit)
energy_conversion(x, energy_unit) ==
    IF lower(energy_unit) = "kcal/mol" THEN Value(x * KcalPerMol, FactorDen)
    ELSE IF lower(energy_unit) = "kj/mol" THEN Value(x * KJPerMol, FactorDen)
    ELSE IF lower(energy_unit) \in {"hartrees", "hartree", "au", "a.u."}
         THEN Value(x * Hartree, HartreeDen)
    ELSE IF lower(energy_unit) = "eV" THEN Value(x, 1)
    ELSE Raised

\* the unit names energy_conversion is called with
UnitNames ==
    {"kcal/mol", "KCAL/MOL", "Kcal/Mol", "kJ/mol", "kj/mol", "KJ/MOL",
     "Hartree", "hartree", "HARTREE", "Hartrees", "hartrees", "au", "AU", "a.u.", "A.U.",
     "eV", "ev", "EV", "cal/mol", "Cal/mol", "kcal", ""}

\* a call of energy_conversion(energies, energy_unit)
call_energy_conversion(energies, energy_unit) ==
    /\ conv_energies' = energies
    /\ conv_unit' = energy_unit
    /\ conv_ret' = energy_conversion(energies, energy_unit)
    /\ UNCHANGED <<supervisorVars, palVars, resultVars, projectVars, optVars, nodeVars>>

\* energy_conversion has not been called
ConversionUnused ==
    /\ conv_energies = 0
    /\ conv_unit = "-"
    /\ conv_ret = NoReturn

\* np.any(np.isnan(energies)) for one iteration
any_isnan(energies) == \E n \in DOMAIN energies : isnan(energies[n])

\* is_energy_completed(): the loop over energies_list from iteration `it` on
RECURSIVE completed_from(_, _)
completed_from(list, it) ==
    IF it > Len(list) THEN TRUE
    ELSE IF any_isnan(list[it]) THEN FALSE
    ELSE completed_from(list, it + 1)

\* is_energy_completed() looking at the latest iteration only
is_energy_completed_latest_only ==
    IF Len(energies_list) = 0 THEN TRUE ELSE ~any_isnan(energies_list[Len(energies_list)])

is_energy_completed == completed_from(energies_list, 1)

\* np.max and np.argmax of one iteration's energies: NaN propagates, and the
\* first NaN (else the first maximum) is the argmax
np_max(energies) ==
    IF any_isnan(energies) THEN NaN
    ELSE CHOOSE m \in {energies[n] : n \in DOMAIN energies} :
            \A n \in DOMAIN energies : energies[n] <= m
np_argmax(energies) ==
    LET hits == IF any_isnan(energies)
                THEN {n \in DOMAIN energies : isnan(energies[n])}
                ELSE {n \in DOMAIN energies : energies[n] = np_max(energies)}
    IN  CHOOSE n \in hits : \A m \in hits : n <= m

\* self.energies_list[iteration]
iteration_energies(iteration) == energies_list[PyIndex(Len(energies_list), iteration) + 1]

\* get_barrier(iteration, energy_unit): the value returned, or Raised
get_barrier_ret(iteration, energy_unit) ==
    IF ~is_energy_completed THEN Raised
    ELSE IF ~InRange(Len(energies_list), iteration) THEN Raised
    ELSE energy_conversion(np_max(iteration_energies(iteration))
                             - iteration_energies(iteration)[0], energy_unit)

\* get_reaction_energy_change(iteration, energy_unit)
get_reaction_energy_change_ret(iteration, energy_unit) ==
    IF ~is_energy_completed THEN Raised
    ELSE IF ~InRange(Len(energies_list), iteration) THEN Raised
    ELSE energy_conversion(iteration_energies(iteration)[num_nodes - 1]
                             - iteration_energies(iteration)[0], energy_unit)

\* get_highest_node_index(iteration)
get_highest_node_index_ret(iteration) ==
    IF ~InRange(Len(energies_list), iteration) THEN Raised
    ELSE Value(np_argmax(iteration_energies(iteration)), 1)

ResultFrame == <<num_nodes, num_frames, num_iteration, atoms_list_list, energies_list, backfilled>>

\* the `iteration` and `node` arguments of save_xyz: None, an int or a tuple
NoneSel == [kind |-> "None", a |-> 0, b |-> 0]
IntSel(i) == [kind |-> "int", a |-> i, b |-> 0]
TupleSel(a, b) == [kind |-> "tuple", a |-> a, b |-> b]

\* iteration_range / node_range as <<start, stop>>
range_of(sel, whole) ==
    IF sel.kind = "int" THEN <<sel.a, sel.a + 1>>
    ELSE IF sel.kind = "tuple" THEN <<sel.a, sel.b>>
    ELSE <<0, whole>>

\* the values a range(start, stop) runs over, in order
range_values(r) == [k \in 1..(IF r[2] > r[1] THEN r[2] - r[1] ELSE 0) |-> r[1] + k - 1]

\* '{:>12.8f} ({:})'.format(energy, energy_unit): the number as stored, then the
\* unit name; an energy array entry is never None, so NaN is formatted as well
energy_string(energy, energy_unit) ==
    [kind |-> IF isnan(energy) THEN "nan" ELSE "number",
     num |-> IF isnan(energy) THEN 0 ELSE energy, den |-> 1, label |-> energy_unit]

\* the title line of the block of node n of iteration i
xyz_title(i, n, energy_unit) ==
    [itr |-> PyIndex(num_iteration, i), node |-> PyIndex(num_nodes, n),
     energy |-> energy_string(energies_list[PyIndex(num_iteration, i) + 1]
                                           [PyIndex(num_nodes, n)], energy_unit)]

\* save_xyz(xyz_file, iteration, node, energy_unit)
save_xyz(iteration, node, energy_unit) ==
    LET is == range_values(range_of(iteration, num_iteration))
        ns == range_values(range_of(node, num_nodes))
    IN  /\ res_op' = "save_xyz"
        /\ res_args' = Args(0, NaN, NaN, FALSE, energy_unit)
        /\ IF \E i \in 1..Len(is), n \in 1..Len(ns) :
                    ~InRange(num_iteration, is[i]) \/ ~InRange(num_nodes, ns[n])
           THEN \* IndexError inside the loop: the file is not opened
                /\ res_ret' = Raised
                /\ xyz_titles' = <<>>
           ELSE /\ res_ret' = NoReturn
                /\ xyz_titles' = [k \in 1..(Len(is) * Len(ns)) |->
                                    xyz_title(is[((k - 1) \div Len(ns)) + 1],
                                              ns[((k - 1) % Len(ns)) + 1], energy_unit)]
        /\ UNCHANGED ResultFrame
        /\ UNCHANGED <<supervisorVars, palVars, utilVars, projectVars, optVars, nodeVars>>

call_is_energy_completed ==
    /\ res_op' = "is_energy_completed"
    /\ res_args' = NoArgs
    /\ res_ret' = Bool(is_energy_completed)
    /\ xyz_titles' = <<>>
    /\ UNCHANGED ResultFrame
    /\ UNCHANGED <<supervisorVars, palVars, utilVars, projectVars, optVars, nodeVars>>

get_barrier(iteration, energy_unit) ==
    /\ res_op' = "get_barrier"
    /\ res_args' = Args(iteration, NaN, NaN, FALSE, energy_unit)
    /\ res_ret' = get_barrier_ret(iteration, energy_unit)
    /\ xyz_titles' = <<>>
    /\ UNCHANGED ResultFrame
    /\ UNCHANGED <<supervisorVars, palVars, utilVars, projectVars, optVars, nodeVars>>

get_reaction_energy_change(iteration, energy_unit) ==
    /\ res_op' = "get_reaction_energy_change"
    /\ res_args' = Args(iteration, NaN, NaN, FALSE, energy_unit)
    /\ res_ret' = get_reaction_energy_change_ret(iteration, energy_unit)
    /\ xyz_titles' = <<>>
    /\ UNCHANGED ResultFrame
    /\ UNCHANGED <<supervisorVars, palVars, utilVars, projectVars, optVars, nodeVars>>

get_highest_node_index(iteration) ==
    /\ res_op' = "get_highest_node_index"
    /\ res_args' = Args(iteration, NaN, NaN, FALSE, "-")
    /\ res_ret' = get_highest_node_index_ret(iteration)
    /\ xyz_titles' = <<>>
    /\ UNCHANGED ResultFrame
    /\ UNCHANGED <<supervisorVars, palVars, utilVars, projectVars, optVars, nodeVars>>

\* complete_energy(index, energy, overwrite) filling in the latest iteration only
completed_list_latest_only(list, index, energy, overwrite) ==
    [it \in DOMAIN list |->
        IF it = Len(list) /\ (isnan(list[it][PyIndex(num_nodes, index)]) \/ overwrite)
        THEN [list[it] EXCEPT ![PyIndex(num_nodes, index)] = energy]
        ELSE list[it]]

\* complete_energy(index, energy, overwrite) writing the energy whatever the entry holds
completed_list_always(list, index, energy, overwrite) ==
    [it \in DOMAIN list |-> [list[it] EXCEPT ![PyIndex(num_nodes, index)] = energy]]

\* complete_energy(index, energy, overwrite) on the list: the list after the loop
completed_list(list, index, energy, overwrite) ==
    [it \in DOMAIN list |->
        IF isnan(list[it][PyIndex(num_nodes, index)]) \/ overwrite
        THEN [list[it] EXCEPT ![PyIndex(num_nodes, index)] = energy]
        ELSE list[it]]

complete_energy(index, energy, overwrite) ==
    /\ res_op' = "complete_energy"
    /\ res_args' = Args(index, energy, NaN, overwrite, "-")
    /\ IF Len(energies_list) > 0 /\ ~InRange(num_nodes, index)
       THEN \* IndexError in the first iteration of the loop
            /\ res_ret' = Raised
            /\ UNCHANGED <<energies_list, backfilled>>
       ELSE /\ res_ret' = NoReturn
            /\ energies_list' = completed_list(energies_list, index, energy, overwrite)
            /\ backfilled' = (backfilled \/ energies_list' # energies_list)
    /\ xyz_titles' = <<>>
    /\ UNCHANGED <<num_nodes, num_frames, num_iteration, atoms_list_list>>
    /\ UNCHANGED <<supervisorVars, palVars, utilVars, projectVars, optVars, nodeVars>>

\* NEBProject.get_neb_result(number) once NEBResult(target_file, num_nodes) is
\* built: the energies of the initial and the final structure (NaN: the
\* structure's trajectory carries none) are filled in at node 0 and node -1
get_neb_result(init_energy, final_energy) ==
    /\ res_op = "init"
    /\ res_op' = "get_neb_result"
    /\ res_args' = Args(0, init_energy, final_energy, FALSE, "-")
    /\ res_ret' = NoReturn
    /\ energies_list' = completed_list(completed_list(energies_list, 0, init_energy, FALSE),
                                       -1, final_energy, FALSE)
    /\ backfilled' = (backfilled \/ energies_list' # energies_list)
    /\ xyz_titles' = <<>>
    /\ UNCHANGED <<num_nodes, num_frames, num_iteration, atoms_list_list>>
    /\ UNCHANGED <<supervisorVars, palVars, utilVars, projectVars, optVars, nodeVars>>

\* NEBResult.__init__(trajectory_file, num_nodes) on a file of `frames` frames,
\* frame f carrying energy frame_energy[f] (NaN: none)
\* atoms_list[a:b] for 0 <= a <= b: the positions a..b-1 that the list has
list_slice(length, a, b) ==
    [n \in 0..((IF b <= length THEN b ELSE length) - a - 1) |-> a + n]

\* a variant of iteration_frames that slides the window by one frame
iteration_frames_sliding(frames, i, nodes) == list_slice(frames, i, i + nodes)

\* atoms_list[i*num_nodes:(i+1)*num_nodes]
iteration_frames(frames, i, nodes) == list_slice(frames, i * nodes, (i + 1) * nodes)

NEBResultInit(nodes, frames, frame_energy) ==
    /\ num_nodes = nodes
    /\ num_frames = frames
    /\ num_iteration = frames \div nodes
    /\ atoms_list_list = [it \in 1..(frames \div nodes) |->
                              iteration_frames(frames, it - 1, nodes)]
    /\ energies_list = [it \in 1..(frames \div nodes) |->
                            [n \in DOMAIN atoms_list_list[it] |->
                                frame_energy[atoms_list_list[it][n]]]]
    /\ backfilled = FALSE
    /\ res_op = "init"
    /\ res_args = NoArgs
    /\ res_ret = NoReturn
    /\ xyz_titles = <<>>

ResultUnused == NEBResultInit(2, 0, <<>>)

\* ------------------------------------------------- NEBProject.interpolate

Species == {1, 6}
\* the atomic numbers of a structure of 1..MaxAtoms atoms
Structures == UNION {[1..n -> Species] : n \in 1..MaxAtoms}
InterpolationMethods == {"idpp", "IDPP", "Linear", "spline"}

\* np.all(init_atoms.get_atomic_numbers() == final_atoms.get_atomic_numbers()):
\* arrays of one length are compared element by element, an array of length 1
\* is broadcast against the other, and any other pair of lengths compares
\* False or raises, which the try block turns into the same RuntimeError
same_atomic_numbers(a, b) ==
    IF Len(a) = Len(b) THEN \A k \in 1..Len(a) : a[k] = b[k]
    ELSE IF Len(a) = 1 THEN \A k \in 1..Len(b) : b[k] = a[1]
    ELSE IF Len(b) = 1 THEN \A k \in 1..Len(a) : a[k] = b[1]
    ELSE FALSE

\* NEB(images=nodes, ...) built on any list of images
NEB_images_unchecked(a, b) == TRUE

\* NEB(images=nodes, ...): the constructor raises ValueError unless every image
\* has the atom count and the atomic numbers of images[0]
NEB_images_ok(a, b) == Len(a) = Len(b) /\ \A k \in 1..Len(a) : a[k] = b[k]

interpolate ==
    LET cleared == remove(files, {initial_path_traj_file, initial_path_xyz_file})
        fails == \/ files[init_traj_file] = "absent"
                 \/ files[final_traj_file] = "absent"
                 \/ ~same_atomic_numbers(init_atoms, final_atoms)
                 \/ ~NEB_images_ok(init_atoms, final_atoms)
                 \/ lower(interpolation_method) \notin {"idpp", "linear"}
    IN  /\ op' = "interpolate" /\ found' = "-" /\ drained_exit' = "-"
        /\ IF fails
           THEN /\ ret' = "raised"
                /\ files' = cleared
           ELSE /\ ret' = "None"
                /\ files' = write(cleared, {initial_path_traj_file, initial_path_xyz_file},
                                  "present")
        /\ UNCHANGED <<calculation_process, procState, procName, procPhase, procExit,
                       neb_optimizer, calculator_type, opt_init, opt_final>>
        /\ UNCHANGED <<palVars, resultVars, utilVars, projectVars, optVars, nodeVars>>

\* no structure is loaded
ProjectUnused ==
    /\ init_atoms = <<1>>
    /\ final_atoms = <<1>>
    /\ interpolation_method = "idpp"

\* ---------------------------------------------------------------- _run_neb

\* the optimizer names of the model, and the fmax settings (0.05 and 0.15 eV/A)
PolicyNames == {"FIRE", "lbfgs", "LBFGSLineSearch", "Composite", "SGD"}
FmaxValues == {1, 3}
\* the 0.1 of max(0.1, fmax), in units of 0.05 eV/A
LooseFmax == 2
max(a, b) == IF a >= b THEN a ELSE b

NoClass == "-"

\* Optimizer(neb, trajectory=str(trajectory_file), ...): append_trajectory is
\* left at False, so the file is opened in mode 'w' and starts empty
opened(file) == <<>>

\* Optimizer.converged(): the largest force is below fmax
converged == force < opt_fmax

\* the loop condition of optimizer.run(fmax, steps): each optimizer object
\* counts its own steps from 0
may_step == nsteps < neb_steps

\* the optimizer object and the fmax of the k-th optimizer.run call of the branch
run_class(k) ==
    CASE upper(optimizer) = "FIRE" -> "FIRE"
      [] upper(optimizer) = "LBFGS" -> "LBFGS"
      [] upper(optimizer) = "LBFGSLINESEARCH" -> "LBFGSLineSearch"
      [] OTHER -> IF k = 1 THEN "FIRE" ELSE "LBFGS"
run_fmax(k) ==
    IF upper(optimizer) = "COMPOSITE" /\ k = 1 THEN max(LooseFmax, neb_fmax) ELSE neb_fmax
last_run == IF upper(optimizer) = "COMPOSITE" THEN 2 ELSE 1

OptFrame == <<optimizer, neb_fmax, neb_steps>>
NotOptimizer == <<supervisorVars, palVars, resultVars, utilVars, projectVars, nodeVars>>

\* an optimizer is built on the trajectory file and its run call begins: the
\* forces of the band as it stands are evaluated and the first snapshot is written
begin_run(k) ==
    /\ opt_class' = run_class(k)
    /\ opt_run' = k
    /\ opt_fmax' = run_fmax(k)
    /\ nsteps' = 0
    /\ trajectory' = Append(opened(trajectory), iterations)

\* _run_neb is entered: the branch on optimizer.upper()
run_neb_begin ==
    /\ opt_pc = "idle"
    /\ IF upper(optimizer) \in ValidOptimizers
       THEN /\ opt_pc' = "running"
            /\ begin_run(1)
       ELSE /\ opt_pc' = "raised"
            /\ UNCHANGED <<opt_class, opt_run, opt_fmax, nsteps, trajectory>>
    /\ UNCHANGED <<OptFrame, force, iterations, runs>>
    /\ UNCHANGED NotOptimizer

\* one pass of the loop of optimizer.run: a step moves the band, whose force
\* criterion becomes f, and the snapshot is appended to the open trajectory
optimizer_step(f) ==
    /\ opt_pc = "running"
    /\ ~converged /\ may_step
    /\ nsteps' = nsteps + 1
    /\ iterations' = iterations + 1
    /\ force' = f
    /\ trajectory' = Append(trajectory, iterations + 1)
    /\ UNCHANGED <<OptFrame, opt_pc, opt_class, opt_run, opt_fmax, runs>>
    /\ UNCHANGED NotOptimizer

\* optimizer.run returns, converged or out of steps, and _run_neb goes on: to
\* the second optimizer of Composite, or to the xyz files and its return
run_returns ==
    /\ opt_pc = "running"
    /\ converged \/ ~may_step
    /\ runs' = Append(runs, [class |-> opt_class, fmax |-> opt_fmax, converged |-> converged])
    /\ IF opt_run < last_run
       THEN /\ begin_run(opt_run + 1)
            /\ UNCHANGED opt_pc
       ELSE /\ opt_pc' = "saved"
            /\ UNCHANGED <<opt_class, opt_run, opt_fmax, nsteps, trajectory>>
    /\ UNCHANGED <<OptFrame, force, iterations>>
    /\ UNCHANGED NotOptimizer

\* _run_neb has not been entered; the trajectory file was removed by run_neb
OptimizerIdle ==
    /\ opt_pc = "idle"
    /\ opt_class = NoClass
    /\ opt_run = 0
    /\ opt_fmax = 0
    /\ nsteps = 0
    /\ iterations = 0
    /\ trajectory = <<>>
    /\ runs = <<>>

OptimizerUnused ==
    /\ optimizer = "FIRE"
    /\ neb_fmax = 1
    /\ neb_steps = 0
    /\ force = 0
    /\ OptimizerIdle

\* ------------------------------------------- run_neb: the new_nodes loop

\* the spellings of the calculator type a settings file may hold
CalculatorSpellings == CalculatorTypes \cup {"g16"}

Digit == <<"0", "1", "2", "3", "4", "5", "6", "7", "8", "9">>

RECURSIVE decimal(_)
\* '{:d}'.format(i) for i >= 0
decimal(i) == IF i < 10 THEN Digit[i + 1] ELSE decimal(i \div 10) \o Digit[(i % 10) + 1]

\* '{:0>3d}'.format(i): right-aligned in a field of 3, filled with '0'
zero_fill_3(i) ==
    IF i < 10 THEN "00" \o decimal(i)
    ELSE IF i < 100 THEN "0" \o decimal(i)
    ELSE decimal(i)

\* 'node{:0>3d}'.format(i)
node_job_name(i) == "node" \o zero_fill_3(i)

\* a calculator without a job_name attribute (XTBCalculator)
NoJobName == "-"

\* the job_name of the calculator get_calculator() returns
default_job_name == IF lower(calculator_type) = "g16" THEN "aserun.gjf" ELSE NoJobName

\* one pass of `for i, _atoms in enumerate(prev_result.atoms_list_list[-1])`:
\* a new calculator object for image i, renamed when calculator_type == 'g16'
new_nodes_append ==
    /\ nodes_pc = "loop"
    /\ Len(new_nodes) < prev_nodes
    /\ LET i == Len(new_nodes)
       IN  IF get_calculator = "raised"
           THEN /\ nodes_pc' = "raised"
                /\ UNCHANGED new_nodes
           ELSE /\ new_nodes' = Append(new_nodes,
                                    [calc |-> i + 1,
                                     job_name |-> IF calculator_type = "g16"
                                                  THEN node_job_name(i)
                                                  ELSE default_job_name])
                /\ UNCHANGED nodes_pc
    /\ UNCHANGED prev_nodes
    /\ UNCHANGED <<supervisorVars, palVars, resultVars, utilVars, projectVars, optVars>>

\* the loop is exhausted: the band is built from new_nodes
new_nodes_built ==
    /\ nodes_pc = "loop"
    /\ Len(new_nodes) = prev_nodes
    /\ nodes_pc' = "built"
    /\ UNCHANGED <<prev_nodes, new_nodes>>
    /\ UNCHANGED <<supervisorVars, palVars, resultVars, utilVars, projectVars, optVars>>

NewNodesUnused ==
    /\ prev_nodes = 3
    /\ new_nodes = <<>>
    /\ nodes_pc = "idle"

\* ------------------------------------------------------ specifications

\* The working directory at construction: the initial path may have been
\* interpolated, and earlier NEB runs 1..done may have left their outputs.
InitFiles(hasPath, hasTemplate, done) ==
    [f \in FileKeys |->
        IF f = initial_path_traj_file THEN (IF hasPath THEN "present" ELSE "absent")
        ELSE IF f = template_file THEN (IF hasTemplate THEN "present" ELSE "absent")
        ELSE IF f[1] \in NebFiles /\ f[2] <= done THEN "present"
        ELSE "absent"]

Init ==
    /\ calculation_process = None
    /\ procState = [p \in Pids |-> "unborn"]
    /\ procName = [p \in Pids |-> NoName]
    /\ procPhase = [p \in Pids |-> 0]
    /\ procExit = [p \in Pids |-> "none"]
    /\ \E hasPath \in BOOLEAN, hasTemplate \in BOOLEAN, done \in 0..(MaxNeb - 1) :
            files = InitFiles(hasPath, hasTemplate, done)
    /\ neb_optimizer \in OptimizerNames
    /\ calculator_type \in CalculatorTypes
    /\ opt_init \in BOOLEAN
    /\ opt_final \in BOOLEAN
    /\ op = "init"
    /\ found = "-"
    /\ drained_exit = "-"
    /\ ret = "-"
    /\ PalUnused
    /\ ResultUnused
    /\ ConversionUnused
    /\ ProjectUnused
    /\ OptimizerUnused
    /\ NewNodesUnused

Next ==
    \/ \E arg \in {NoneArg} \cup (0..(MaxNeb - 1)) : run_neb(arg)
    \/ \E readable \in BOOLEAN : load_init_structure(readable)
    \/ \E readable \in BOOLEAN : load_final_structure(readable)
    \/ \E arg \in {NoneArg} \cup (0..(MaxNeb - 1)) : run_g16_init_guess(arg)
    \/ check
    \/ terminate
    \/ \E p \in Pids : BgStep(p)
    \/ \E p \in Pids : BgExitOk(p)
    \/ \E p \in Pids : BgExitError(p)

Spec == Init /\ [][Next]_vars

TypeOK ==
    /\ calculation_process \in {None} \cup Pids
    /\ procState \in [Pids -> {"unborn", "initial", "alive", "exited", "closed"}]
    /\ files \in [FileKeys -> {"absent", "partial", "present"}]

\* the supervisor is not in use
SupervisorUnused ==
    /\ calculation_process = None
    /\ procState = [p \in Pids |-> "unborn"]
    /\ procName = [p \in Pids |-> NoName]
    /\ procPhase = [p \in Pids |-> 0]
    /\ procExit = [p \in Pids |-> "none"]
    /\ files = [f \in FileKeys |-> "absent"]
    /\ neb_optimizer = "Composite"
    /\ calculator_type = "xtb"
    /\ opt_init = TRUE
    /\ opt_final = TRUE
    /\ op = "init"
    /\ found = "-"
    /\ drained_exit = "-"
    /\ ret = "-"

InitPalNEB ==
    PalInit /\ SupervisorUnused /\ ResultUnused /\ ConversionUnused /\ ProjectUnused
    /\ OptimizerUnused
    /\ NewNodesUnused

NextPalNEB ==
    \/ get_forces_begin
    \/ \E pos \in Positions : worker_start(pos)
    \/ \E pos \in Positions, ok \in BOOLEAN : worker_finish(pos, ok)
    \/ map_return
    \/ map_raise

SpecPalNEB == InitPalNEB /\ [][NextPalNEB]_vars

InitResult ==
    /\ \E nodes \in NodeCounts, frames \in 0..MaxFrames :
        \E frame_energy \in [0..((frames \div nodes) * nodes - 1) -> FrameEnergies \cup {NaN}] :
            NEBResultInit(nodes, frames, frame_energy)
    /\ SupervisorUnused
    /\ PalUnused
    /\ ConversionUnused
    /\ ProjectUnused
    /\ OptimizerUnused
    /\ NewNodesUnused

NextResult ==
    \/ call_is_energy_completed
    \/ \E index \in {-1, 0, 1, 3}, energy \in FrameEnergies \cup {NaN}, overwrite \in BOOLEAN :
            complete_energy(index, energy, overwrite)
    \/ \E iteration \in {-1, 0, 1}, energy_unit \in QueryUnits : get_barrier(iteration, energy_unit)
    \/ \E iteration \in {-1, 0, 1}, energy_unit \in QueryUnits :
            get_reaction_energy_change(iteration, energy_unit)
    \/ \E iteration \in {-1, 0, 1} : get_highest_node_index(iteration)
    \/ \E init_energy \in FrameEnergies \cup {NaN}, final_energy \in FrameEnergies \cup {NaN} :
            get_neb_result(init_energy, final_energy)
    \/ \E iteration \in {NoneSel, IntSel(-1), IntSel(1)}, node \in {NoneSel, TupleSel(1, 2)},
          energy_unit \in {"eV", "kcal/mol"} :
            save_xyz(iteration, node, energy_unit)

SpecResult == InitResult /\ [][NextResult]_vars

InitConversion ==
    ConversionUnused /\ SupervisorUnused /\ PalUnused /\ ResultUnused /\ ProjectUnused
    /\ OptimizerUnused
    /\ NewNodesUnused

\* a project directory in which either structure may be loaded and an earlier
\* interpolation may have left its two files
InitProject ==
    /\ calculation_process = None
    /\ procState = [p \in Pids |-> "unborn"]
    /\ procName = [p \in Pids |-> NoName]
    /\ procPhase = [p \in Pids |-> 0]
    /\ procExit = [p \in Pids |-> "none"]
    /\ \E hasInit \in BOOLEAN, hasFinal \in BOOLEAN, hasPath \in BOOLEAN :
            files = [f \in FileKeys |->
                        IF \/ f = init_traj_file /\ hasInit
                           \/ f = final_traj_file /\ hasFinal
                           \/ f \in {initial_path_traj_file, initial_path_xyz_file} /\ hasPath
                        THEN "present" ELSE "absent"]
    /\ neb_optimizer = "Composite"
    /\ calculator_type = "xtb"
    /\ opt_init = TRUE
    /\ opt_final = TRUE
    /\ op = "init"
    /\ found = "-"
    /\ drained_exit = "-"
    /\ ret = "-"
    /\ init_atoms \in Structures
    /\ final_atoms \in Structures
    /\ interpolation_method \in InterpolationMethods
    /\ PalUnused
    /\ ResultUnused
    /\ ConversionUnused
    /\ OptimizerUnused
    /\ NewNodesUnused

InitOptimizer ==
    /\ optimizer \in PolicyNames
    /\ neb_fmax \in FmaxValues
    /\ neb_steps \in 0..MaxSteps
    /\ force \in 0..MaxForce
    /\ OptimizerIdle
    /\ SupervisorUnused
    /\ PalUnused
    /\ ResultUnused
    /\ ConversionUnused
    /\ ProjectUnused
    /\ NewNodesUnused

NextOptimizer ==
    \/ run_neb_begin
    \/ \E f \in 0..MaxForce : optimizer_step(f)
    \/ run_returns

\* run_neb has read the previous path and enters the loop over its last iteration
InitNewNodes ==
    /\ calculation_process = None
    /\ procState = [p \in Pids |-> "unborn"]
    /\ procName = [p \in Pids |-> NoName]
    /\ procPhase = [p \in Pids |-> 0]
    /\ procExit = [p \in Pids |-> "none"]
    /\ \E hasTemplate \in BOOLEAN : files = InitFiles(TRUE, hasTemplate, 0)
    /\ neb_optimizer = "Composite"
    /\ calculator_type \in CalculatorSpellings
    /\ opt_init = TRUE
    /\ opt_final = TRUE
    /\ op = "init"
    /\ found = "-"
    /\ drained_exit = "-"
    /\ ret = "-"
    /\ prev_nodes \in 3..MaxNodes
    /\ new_nodes = <<>>
    /\ nodes_pc = "loop"
    /\ PalUnused
    /\ ResultUnused
    /\ ConversionUnused
    /\ ProjectUnused
    /\ OptimizerUnused

NextNewNodes ==
    \/ new_nodes_append
    \/ new_nodes_built

SpecNewNodes == InitNewNodes /\ [][NextNewNodes]_vars

SpecOptimizer == InitOptimizer /\ [][NextOptimizer]_vars

NextProject == interpolate

SpecProject == InitProject /\ [][NextProject]_vars

NextConversion ==
    \E energies \in (-MaxEV)..MaxEV, energy_unit \in UnitNames :
        call_energy_conversion(energies, energy_unit)

SpecConversion == InitConversion /\ [][NextConversion]_vars

\* -------------------------------------------------- NEBResult properties

\* some node of some iteration has an unknown energy
HasUnknownEnergy ==
    \E it \in 1..Len(energies_list) : \E n \in Nodes : energies_list[it][n] = NaN

MetricOps == {"get_barrier", "get_reaction_energy_change", "get_highest_node_index"}

\* C9: on a result with an unknown energy every metric query raises.
C9_MetricsRefuseIncomplete ==
    (res_op \in MetricOps /\ HasUnknownEnergy) => res_ret = Raised

\* C10: is_energy_completed returns False exactly when some node of some
\* iteration has an unknown energy.
C10_CompletedIffNoUnknown ==
    res_op = "is_energy_completed" => (res_ret = Bool(FALSE) <=> HasUnknownEnergy)

\* is_energy_completed has returned True on a result whose unknown energies
\* were filled in by complete_energy
C10_Witness ==
    /\ res_op = "is_energy_completed"
    /\ res_ret = Bool(TRUE)
    /\ backfilled
    /\ num_iteration >= 2

\* C11: once the known energies of the initial and the final structure are
\* filled in at node 0 and node -1, no iteration has an unknown energy at
\* node 0 or at node N-1, whatever the result held before.
C11_EndpointsKnown ==
    (res_op = "get_neb_result" /\ ~isnan(res_args.energy) /\ ~isnan(res_args.final))
        => \A it \in 1..Len(energies_list) :
                ~isnan(energies_list[it][0]) /\ ~isnan(energies_list[it][num_nodes - 1])

\* unknown endpoint energies of a result of several iterations have been filled in
C11_Witness ==
    /\ res_op = "get_neb_result"
    /\ ~isnan(res_args.energy) /\ ~isnan(res_args.final)
    /\ backfilled
    /\ num_iteration >= 2

\* the units energy_conversion is documented to take, case-insensitively
RecognizedUnit(energy_unit) ==
    lower(energy_unit) \in {"kcal/mol", "kj/mol", "hartree", "hartrees", "au", "a.u.", "ev"}

\* x eV in a recognized unit: 23.06031 for kcal/mol, 96.48534 for kJ/mol,
\* 0.03674932 for Hartree, 1.0 for eV
Converted(x, energy_unit) ==
    CASE lower(energy_unit) = "kcal/mol" -> Value(x * KcalPerMol, FactorDen)
      [] lower(energy_unit) = "kj/mol" -> Value(x * KJPerMol, FactorDen)
      [] lower(energy_unit) = "ev" -> Value(x, 1)
      [] OTHER -> Value(x * Hartree, HartreeDen)

\* the largest energy of one iteration, and the lowest node attaining it
MaxEnergy(energies) ==
    CHOOSE m \in {energies[n] : n \in DOMAIN energies} : \A n \in DOMAIN energies : energies[n] <= m
LowestHighest(energies) ==
    CHOOSE n \in DOMAIN energies :
        /\ energies[n] = MaxEnergy(energies)
        /\ \A m \in DOMAIN energies : energies[m] = MaxEnergy(energies) => n <= m

\* what each metric is to return for the energies of one iteration
MetricValue(metric, energies, energy_unit) ==
    CASE metric = "get_barrier" -> Converted(MaxEnergy(energies) - energies[0], energy_unit)
      [] metric = "get_reaction_energy_change" ->
            Converted(energies[num_nodes - 1] - energies[0], energy_unit)
      [] OTHER -> Value(LowestHighest(energies), 1)

\* a metric was asked of a complete result, for an iteration it has and, where
\* it takes one, in a recognized unit
MetricAsked ==
    /\ res_op \in MetricOps
    /\ ~HasUnknownEnergy
    /\ InRange(Len(energies_list), res_args.index)
    /\ res_op = "get_highest_node_index" \/ RecognizedUnit(res_args.energy_unit)

\* C12: on a complete result get_barrier returns max(E) - E[0] and
\* get_reaction_energy_change returns E[N-1] - E[0] of the chosen iteration, in
\* the chosen unit, and get_highest_node_index returns the lowest node at
\* which E is largest.
C12_MetricValues ==
    MetricAsked =>
        res_ret = MetricValue(res_op, iteration_energies(res_args.index), res_args.energy_unit)

\* C20: complete_energy(index, energy) without overwrite changes only the
\* unknown entries of node `index`, which become `energy`; with overwrite it
\* sets that node's entry in every iteration; the entries of every other node
\* stay as they were.
C20_CompleteEnergyFrame ==
    [][ res_op' = "complete_energy" =>
          /\ DOMAIN energies_list' = DOMAIN energies_list
          /\ \A it \in DOMAIN energies_list : \A n \in Nodes :
                energies_list'[it][n] =
                    IF /\ res_ret' # Raised
                       /\ n = PyIndex(num_nodes, res_args'.index)
                       /\ (res_args'.overwrite \/ isnan(energies_list[it][n]))
                    THEN res_args'.energy
                    ELSE energies_list[it][n] ]_vars

\* a call without overwrite has filled the node in one iteration and left its
\* known, different energy in another
C20_Witness ==
    /\ res_op = "complete_energy"
    /\ res_ret = NoReturn
    /\ ~res_args.overwrite
    /\ ~isnan(res_args.energy)
    /\ backfilled
    /\ \E it \in DOMAIN energies_list :
            energies_list[it][PyIndex(num_nodes, res_args.index)] = res_args.energy
    /\ \E it \in DOMAIN energies_list :
            /\ ~isnan(energies_list[it][PyIndex(num_nodes, res_args.index)])
            /\ energies_list[it][PyIndex(num_nodes, res_args.index)] # res_args.energy

\* C19: the energy field of every title line save_xyz writes is the node's
\* energy converted from eV to the unit asked for, or 'nan' where the node's
\* energy is unknown.
C19_TitleEnergyInUnit ==
    (res_op = "save_xyz" /\ res_ret = NoReturn) =>
        \A k \in 1..Len(xyz_titles) :
            LET title == xyz_titles[k]
                stored == energies_list[title.itr + 1][title.node]
            IN  IF isnan(stored) THEN title.energy.kind = "nan"
                ELSE /\ title.energy.kind = "number"
                     /\ title.energy.label = res_args.energy_unit
                     /\ title.energy.num * Converted(stored, res_args.energy_unit).den
                            = Converted(stored, res_args.energy_unit).num * title.energy.den

\* ------------------------------------------ energy_conversion properties

\* C13: energy_conversion returns the energies times 23.06031 for kcal/mol,
\* 96.48534 for kJ/mol, 0.03674932 for Hartree and 1.0 for eV, whatever the
\* case the unit is written in.
C13_ConversionFactors ==
    (conv_unit # "-" /\ RecognizedUnit(conv_unit))
        => conv_ret = Converted(conv_energies, conv_unit)

\* C14: energy_conversion raises exactly when the unit is not a recognized
\* one, and never for a recognized one.
C14_RaisesIffUnrecognized ==
    conv_unit # "-" => (conv_ret = Raised <=> ~RecognizedUnit(conv_unit))

\* ----------------------------------------------------- PalNEB properties

\* C7: after get_forces, for every interior image i the stored force and
\* energy are those computed for image i, whatever the order the workers
\* finished in.
C7_ResultsInImageOrder ==
    pal_pc = "done" =>
        \A i \in Interior :
            /\ neb_real_forces[i] = ForceOf(i)
            /\ neb_energies[i] = provider[i]
            /\ forces_ret[i - 1].img = i

\* a call has returned although a worker finished before an earlier one,
\* on a band whose interior images have different energies
C7_Witness ==
    /\ pal_pc = "done"
    /\ outOfOrder
    /\ nimages >= 4
    /\ provider[1] # provider[2]

\* C8: when an evaluation has failed, get_forces does not return and the
\* stored energies, real_forces, imax, emax and residuals are not updated.
C8_FailureIsResultless ==
    map_failed =>
        /\ pal_pc \in {"mapping", "failed"}
        /\ forces_ret = <<>>
        /\ forces_rows = <<>>
        /\ neb_energies = [i \in Images |-> Before]
        /\ neb_real_forces = [i \in Images |-> BeforeForce]
        /\ neb_imax = Before
        /\ neb_emax = Before
        /\ neb_residuals = <<>>

\* the call has failed although some images were evaluated successfully
C8_Witness ==
    /\ pal_pc = "failed"
    /\ \E pos \in Positions : taskState[pos] = "error"
    /\ \E pos \in Positions : taskState[pos] = "ok"

\* the rows of the returned array whose image was treated as climbing
ClimbingRows == {j \in DOMAIN forces_ret : forces_ret[j].kind = "climb"}

\* C15: with climbing enabled exactly one interior image, the one of index
\* imax, has its tangential force inverted and gets no spring force, and every
\* other interior image goes through the spring step; with climbing disabled
\* no image is treated as climbing.
C15_OneClimbingImage ==
    pal_pc = "done" =>
        IF climb
        THEN /\ neb_imax \in Interior
             /\ ClimbingRows = {neb_imax - 1}
             /\ \A i \in Interior \ {neb_imax} : forces_ret[i - 1].kind = "spring"
             /\ neb_residuals = residual_images(1, neb_imax)
             /\ Len(neb_residuals) = nimages - 3
        ELSE /\ ClimbingRows = {}
             /\ Len(neb_residuals) = nimages - 2

\* a climbing call has returned on a band whose first endpoint lies higher
\* than every interior image
C15_Witness ==
    /\ pal_pc = "done"
    /\ climb
    /\ nimages >= 4
    /\ neb_energies[0] > neb_emax

\* C16: get_forces returns (N-2)*A rows, row r holding the force on atom
\* r mod A of interior image 1 + r div A; no row belongs to image 0 or N-1.
C16_InteriorRowsOnly ==
    pal_pc = "done" =>
        /\ DOMAIN forces_rows = 0..((nimages - 2) * natoms - 1)
        /\ \A r \in DOMAIN forces_rows :
                /\ forces_rows[r].img = 1 + (r \div natoms)
                /\ forces_rows[r].atom = r % natoms
                /\ forces_rows[r].img \in Interior

\* the call has returned on a band of several interior images of several
\* atoms whose evaluations include the endpoints
C16_Witness ==
    /\ pal_pc = "done"
    /\ nimages >= 4
    /\ natoms >= 2
    /\ method # "aseneb"

\* C21: with remove_rotation_and_translation a get_forces call re-aligns the
\* interior images 1..N-2 only; image 0 and image N-1 are not moved.
C21_EndpointsNotAligned ==
    (pal_pc # "idle" /\ remove_rotation_and_translation)
        => /\ \A i \in Interior : pal_pc # "failed" => aligned[i]
           /\ ~aligned[0]
           /\ ~aligned[nimages - 1]

\* ------------------------------------------------- NEBProject properties

\* C18: when the loaded initial and final structures differ in atom count or
\* in their sequence of species, interpolate raises and leaves neither the
\* initial-path trajectory nor its xyz file.
C18_MismatchWritesNothing ==
    ( /\ op = "interpolate"
      /\ files[init_traj_file] # "absent" /\ files[final_traj_file] # "absent"
      /\ init_atoms # final_atoms )
        => /\ ret = "raised"
           /\ files[initial_path_traj_file] = "absent"
           /\ files[initial_path_xyz_file] = "absent"

\* interpolate has raised for a one-atom initial structure and a longer final
\* structure of that one species
C18_Witness ==
    /\ op = "interpolate"
    /\ ret = "raised"
    /\ files[init_traj_file] # "absent" /\ files[final_traj_file] # "absent"
    /\ Len(init_atoms) = 1 /\ Len(final_atoms) = 2
    /\ \A k \in 1..Len(final_atoms) : final_atoms[k] = init_atoms[1]
    /\ lower(interpolation_method) = "idpp"

\* ------------------------------------------------- supervisor properties

ProcFrame == <<calculation_process, procState, procName, procPhase, procExit>>

\* C1: a start operation called while a task handle is held returns False,
\* starts no process, removes no file and leaves the handle as it was.
C1_BusyStartRejected ==
    [][ (op' \in StartOps /\ calculation_process # None)
            => (ret' = "False" /\ UNCHANGED ProcFrame /\ UNCHANGED files) ]_vars

\* a start operation has just been rejected while the held process was running
C1_Witness == op \in StartOps /\ found = "alive" /\ ret = "False"

\* C2: at most one background process of the supervisor is alive.
C2_SingleFlight == Cardinality({p \in Pids : procState[p] = "alive"}) <= 1

\* a second process is running after the first one was drained or terminated
C2_Witness ==
    /\ \E p \in Pids : procState[p] = "closed"
    /\ \E p \in Pids : procState[p] = "alive"

\* C3: terminate() on a running task ends the process and leaves the
\* supervisor not-started (check() would return -1); from then on, until a
\* start operation runs, the handle stays clear, and a start operation that
\* finds it clear is not rejected: when it does not raise, its process runs.
C3_TerminateResets ==
    [][ /\ (op' = "terminate" /\ HandleState = "alive")
            => /\ procState'[calculation_process] = "closed"
               /\ calculation_process' = None
               /\ check_ret' = "-1"
               /\ ret' = "None"
        /\ (calculation_process = None /\ op' \notin StartOps)
            => calculation_process' = None
        /\ (calculation_process = None /\ op' \in StartOps)
            => /\ ret' # "False"
               /\ ret' # "raised" => HandleState' = "alive" ]_vars

\* terminate() has just ended a running process
C3_Witness == op = "terminate" /\ found = "alive" /\ ret = "None"

\* C4: check() while the process is alive returns 1 and changes nothing.
C4_CheckWhileRunning ==
    [][ (op' = "check" /\ HandleState = "alive")
            => /\ ret' = "1"
               /\ UNCHANGED ProcFrame
               /\ UNCHANGED files
               /\ UNCHANGED current_calculation_job_name ]_vars

\* check() has just been called on a running task
C4_Witness == op = "check" /\ found = "alive" /\ ret = "1"

\* C5: a check() on a held, terminated process returns 0, closes the process
\* and clears the handle; check() returns 0 only so, and a closed process
\* stays closed (one 0 per task); with no handle held check() returns -1 and a
\* start operation is not rejected.
C5_DrainOnce ==
    [][ /\ (op' = "check" /\ HandleState = "exited")
            => /\ ret' = "0"
               /\ procState'[calculation_process] = "closed"
               /\ calculation_process' = None
        /\ (op' = "check" /\ ret' = "0") => HandleState = "exited"
        /\ \A p \in Pids : procState[p] = "closed" => procState'[p] = "closed"
        /\ (op' = "check" /\ calculation_process = None) => ret' = "-1"
        /\ (op = "check" /\ ret = "0" /\ op' \in StartOps) => ret' # "False" ]_vars

\* check() has just drained a terminated task
C5_Witness == op = "check" /\ found = "exited" /\ ret = "0" /\ calculation_process = None

\* C6: a start operation on an idle supervisor that completes without error
\* returns True and leaves its process running.
C6_AcceptedStartReturnsTrue ==
    [][ (op' \in StartOps /\ calculation_process = None /\ ret' # "raised")
            => (ret' = "True" /\ HandleState' = "alive") ]_vars

\* C17: run_neb with an optimizer name outside FIRE, LBFGS, LBFGSLineSearch and
\* Composite is not accepted: it does not return True and leaves no process
\* running that was not running before.
C17_InvalidOptimizerRejected ==
    [][ (op' = "run_neb" /\ upper(neb_optimizer) \notin ValidOptimizers)
            => /\ ret' # "True"
               /\ \A p \in Pids : procState'[p] = "alive" => procState[p] = "alive" ]_vars

\* C25: a NEBResult built from a trajectory of F frames with num_nodes N holds
\* exactly floor(F / N) iterations; iteration i is the frames i*N .. (i+1)*N - 1
\* in file order, with one energy per frame, and no frame of a trailing partial
\* group appears in any iteration.
C25_WholeIterationsOnly ==
    /\ num_iteration * num_nodes <= num_frames
    /\ num_frames < (num_iteration + 1) * num_nodes
    /\ DOMAIN atoms_list_list = 1..num_iteration
    /\ DOMAIN energies_list = 1..num_iteration
    /\ \A i \in 0..(num_iteration - 1) :
          /\ DOMAIN atoms_list_list[i + 1] = 0..(num_nodes - 1)
          /\ DOMAIN energies_list[i + 1] = 0..(num_nodes - 1)
          /\ \A n \in 0..(num_nodes - 1) :
                atoms_list_list[i + 1][n] = i * num_nodes + n

\* a trajectory with a whole iteration and a trailing partial group
C25_Witness ==
    /\ res_op = "init"
    /\ num_iteration >= 1
    /\ num_frames > num_iteration * num_nodes

\* C26: in run_neb, whenever the calculator type selects the Gaussian calculator
\* (get_calculator compares it in lower case), every image i of the band gets its
\* own calculator whose job name is node<i in 3 digits>, so that no two images
\* share a job name.
C26_GaussianNodeJobNames ==
    (lower(calculator_type) = "g16" /\ nodes_pc = "built") =>
        /\ \A i \in 1..Len(new_nodes) : new_nodes[i].job_name = node_job_name(i - 1)
        /\ \A i, j \in 1..Len(new_nodes) :
              i # j => /\ new_nodes[i].calc # new_nodes[j].calc
                       /\ new_nodes[i].job_name # new_nodes[j].job_name

\* C27: a start operation issued after the background process has terminated
\* but before check() has drained it is rejected: it returns False, starts no
\* process, removes no file and leaves the handle on the finished process.
C27_FinishedUndrainedRejects ==
    [][ (op' \in StartOps /\ HandleState = "exited")
            => (ret' = "False" /\ UNCHANGED ProcFrame /\ UNCHANGED files) ]_vars

\* a start operation has just been rejected while the held process had
\* terminated and was not yet drained
C27_Witness ==
    /\ op \in StartOps /\ found = "exited" /\ ret = "False"
    /\ HandleState = "exited"

\* C28: when a start operation has failed with an error (a missing previous
\* path file, an invalid calculator type, a process that could not be launched),
\* the supervisor is not-started: check() would return -1 and no start
\* operation would be rejected as busy.
C28_FailedStartLeavesNotStarted ==
    (op \in StartOps /\ ret = "raised") =>
        /\ check_ret = "-1"
        /\ ~run_neb_busy
        /\ ~load_init_structure_busy
        /\ ~load_final_structure_busy
        /\ ~run_g16_init_guess_busy

\* C29: check() on a finished task returns 0 and performs the same cleanup
\* (handle cleared, process closed) whether the task ended normally or by an
\* exception: after the drain nothing the supervisor holds tells the two apart.
C29_DrainHidesFailure ==
    [][ (op' = "check" /\ HandleState = "exited")
            => /\ ret' = "0"
               /\ calculation_process' = None
               /\ procState' = [procState EXCEPT ![calculation_process] = "closed"]
               /\ procExit' = [procExit EXCEPT ![calculation_process] = "none"]
               /\ procName' = [procName EXCEPT ![calculation_process] = NoName]
               /\ procPhase' = [procPhase EXCEPT ![calculation_process] = 0]
               /\ UNCHANGED files ]_vars

\* check() has just drained a task that had ended by an exception
C29_Witness ==
    /\ op = "check" /\ found = "exited" /\ drained_exit = "error"
    /\ ret = "0"
    /\ calculation_process = None

\* C30: terminate() called while no task is held (never started, drained by
\* check(), or terminated before) raises an error and changes nothing: the
\* supervisor stays not-started, and a start operation that follows at once is
\* not rejected as busy.
C30_TerminateWithoutTaskRaises ==
    [][ /\ (op' = "terminate" /\ calculation_process = None)
            => /\ ret' = "raised"
               /\ calculation_process' = None
               /\ UNCHANGED ProcFrame
               /\ UNCHANGED files
        /\ (op = "terminate" /\ found = "none" /\ op' \in StartOps)
            => ret' # "False" ]_vars

\* terminate() has just raised on a supervisor whose earlier task was already
\* drained or terminated
C30_Witness ==
    /\ op = "terminate" /\ found = "none" /\ ret = "raised"
    /\ calculation_process = None
    /\ \E p \in Pids : procState[p] = "closed"

\* ------------------------------------------------------ _run_neb properties

\* C22: a path optimization ends when the force criterion is below fmax or
\* the iteration count reaches steps: it never takes more than `steps`
\* optimizer iterations, and both endings return normally.
C22_IterationsWithinSteps ==
    /\ iterations <= neb_steps
    /\ (opt_pc = "saved" /\ iterations < neb_steps) => force < neb_fmax

\* C23: under Composite the FIRE run has threshold max(0.1, fmax), the LBFGS
\* run has threshold fmax, and the LBFGS run begins only once the FIRE run has
\* brought the force criterion below max(0.1, fmax).
C23_CompositeSwitchesOnConvergence ==
    (upper(optimizer) = "COMPOSITE" /\ opt_run >= 1) =>
        IF opt_run = 1
        THEN opt_class = "FIRE" /\ opt_fmax = max(LooseFmax, neb_fmax)
        ELSE /\ opt_class = "LBFGS" /\ opt_fmax = neb_fmax
             /\ runs[1] = [class |-> "FIRE", fmax |-> max(LooseFmax, neb_fmax),
                           converged |-> TRUE]

\* C24: the trajectory file holds the snapshot of every iteration of the run,
\* in the order they were written; none is removed or overwritten.
C24_TrajectoryAppendOnly ==
    opt_pc \in {"running", "saved"} =>
        /\ \A k \in 0..iterations : \E j \in DOMAIN trajectory : trajectory[j] = k
        /\ \A i \in DOMAIN trajectory, j \in DOMAIN trajectory :
                i < j => trajectory[i] <= trajectory[j]

====
